---- MODULE Spec2Model ----
(***************************************************************************)
(* Batch transfer engine with live progress reporting of the 360 photo     *)
(* downloader: the Progress State Store (download-state.ts), the Transfer  *)
(* Unit (processPhoto), the Batch Orchestrator (downloadAllPhotos), the    *)
(* Single-Item Orchestrator (downloadSinglePhoto) and the socket message   *)
(* dispatcher (handleMessage).                                             *)
(*                                                                         *)
(* Execution model: node's single-threaded event loop.  Every async        *)
(* function runs synchronously up to its next `await`; the handlers of     *)
(* different socket messages interleave only at awaits (webapp.ts does not *)
(* await handleMessage).  Each action below is one such synchronous run.   *)
(* The one place where it is split further is the batch loop, whose        *)
(* iterations are separate actions; EventLoopFree keeps every other action *)
(* from running between them.                                              *)
(*                                                                         *)
(* Time is counted in seconds: the expiry timers of item records and the   *)
(* backoff sleeps of processPhoto hold the seconds they have left, Tick    *)
(* lets one second pass, and a timer that is due fires before time goes on.*)
(***************************************************************************)
EXTENDS Integers, Sequences, FiniteSets, TLC

\* ---- bounds of the model ----
NPhotos == 3        \* photos of the catalog, ids 1..NPhotos
MaxBatches == 2     \* calls of downloadAllPhotos that may be running at once
MaxSingles == 2     \* calls of downloadSinglePhoto that may be running at once
MaxRuns == 2        \* calls of either that one behaviour starts
MaxConns == 2       \* client connections that may be open at once

\* ---- program constants ----
ExpiryDelay == 5    \* setTimeout(..., 5000) of updateState, in seconds
maxAttempts == 3    \* processPhoto: const maxAttempts = 3

PhotoIds == 1..NPhotos
UnknownId == NPhotos + 1          \* an id that is in neither session list
Batches == 1..MaxBatches
Singles == (MaxBatches + 1)..(MaxBatches + MaxSingles)
Procs == Batches \cup Singles
Conns == 1..MaxConns              \* 0 stands for null
Posed == {id \in PhotoIds : id < NPhotos}   \* the photos that have a pose: all but the last

VARIABLES
  global,            \* state.global of download-state.ts
  individual,        \* state.individual: photo id -> item record
  timers,            \* pending expiry timers: <<photo id, seconds left>>
  downloadedPhotos,  \* req.session.downloadedPhotos (sequence of ids)
  missingPhotos,     \* req.session.missingPhotos (sequence of ids)
  drive,             \* destination folder: id -> number of files <id>.jpg
  proc,              \* the running handler invocations and their locals
  runs,              \* calls of downloadAllPhotos / downloadSinglePhoto so far
  socket,            \* state.socket: the connection updates are sent to, 0 if null
  open,              \* the client connections that are open
  sent,              \* the messages the last step sent, in order
  mirror,            \* history: what the client of state.socket has been told
  itemLog            \* history: the kind of the last item message, per photo

vars == <<global, individual, timers, downloadedPhotos, missingPhotos, drive, proc, runs,
          socket, open, sent, mirror, itemLog>>

\* ------------------------------------------------------------------------
\* Helpers on sequences (Array.prototype.findIndex / splice / push).
\* ------------------------------------------------------------------------
Range(s) == {s[k] : k \in 1..Len(s)}

\* findIndex(p => p.photoId.id === id), 1-based; 0 stands for -1
FindIndex(s, id) ==
  IF \E k \in 1..Len(s) : s[k] = id
  THEN CHOOSE k \in 1..Len(s) : s[k] = id /\ \A j \in 1..(k - 1) : s[j] # id
  ELSE 0

\* splice(k, 1)
Splice(s, k) == [j \in 1..(Len(s) - 1) |-> IF j < k THEN s[j] ELSE s[j + 1]]

\* the increasing sequence of the members of a set of ids
RECURSIVE SortedSeq(_)
SortedSeq(S) ==
  IF S = {} THEN <<>>
  ELSE LET m == CHOOSE x \in S : \A y \in S : x <= y
       IN <<m>> \o SortedSeq(S \ {m})

\* Math.round((n / d) * 100)
RoundPct(n, d) == (200 * n + d) \div (2 * d)

\* ------------------------------------------------------------------------
\* Progress State Store (download-state.ts)
\* ------------------------------------------------------------------------
NoMessage == [kind |-> "", arg |-> 0]
Msg(k, a) == [kind |-> k, arg |-> a]

\* the idle defaults of state.global
IdleGlobal ==
  [ inProgress |-> FALSE, total |-> 0, current |-> 0, message |-> NoMessage,
    totalProgress |-> 0, complete |-> FALSE, cancelled |-> FALSE,
    error |-> "null", status |-> "idle" ]

NoRecords == [x \in {} |-> 0]

\* Object.assign(target, patch)
Assign(target, patch) ==
  [f \in (DOMAIN target) \cup (DOMAIN patch) |->
     IF f \in DOMAIN patch THEN patch[f] ELSE target[f]]

Without(patch, field) == [f \in (DOMAIN patch) \ {field} |-> patch[f]]

Has(rec, field) == field \in DOMAIN rec

\* the store as one value, so that a handler can chain several calls; sent
\* collects the messages of the calls, log is the history itemLog
Store ==
  [global |-> global, individual |-> individual, timers |-> timers,
   socket |-> socket, sent |-> <<>>, log |-> itemLog]

\* variant for C31: a send that keeps the message when no connection is attached
Send_Buffered(st, payload) ==
  [st EXCEPT !.sent = Append(@, [to |-> st.socket, payload |-> payload])]

\* state.socket.send(JSON.stringify({ type: "progress", payload })), if (state.socket)
Send(st, payload) ==
  IF st.socket # 0
  THEN [st EXCEPT !.sent = Append(@, [to |-> st.socket, payload |-> payload])]
  ELSE st

\* history: the kind of an item patch, "" for one that only carries a message
PatchKind(photoState) ==
  IF (Has(photoState, "complete") /\ photoState.complete = TRUE) \/ Has(photoState, "error")
  THEN "terminal"
  ELSE IF Has(photoState, "uploadStarted") \/ Has(photoState, "uploadProgress")
       THEN "upload"
       ELSE IF Has(photoState, "downloadProgress") THEN "download" ELSE ""

\* history: an item message of kind k is sent for photoId.  The order is
\* broken by a download-progress message after an upload-progress message of
\* the same transfer, and by an upload-progress message after a terminal one.
Note(log, photoId, k) ==
  IF k = "" THEN log
  ELSE [phase |-> [log.phase EXCEPT ![photoId] = k],
        ok |-> /\ log.ok
               /\ ~(k = "download" /\ log.phase[photoId] = "upload")
               /\ ~(k = "upload" /\ log.phase[photoId] = "terminal")]

\* getState(): the store without the socket
getState(st) == [global |-> st.global, individual |-> st.individual]

\* variant for C19: updateState that merges every patch into the global record
updateState_AllGlobal(st, newState) ==
  LET st1 == [st EXCEPT !.global = Assign(st.global, Without(newState, "photoId"))]
  IN Send(st1, [global |-> st1.global])

\* updateState(newState)
updateState(st, newState) ==
  IF Has(newState, "photoId")
  THEN LET photoId == newState.photoId
           photoState == Without(newState, "photoId")
           old == IF photoId \in DOMAIN st.individual
                  THEN st.individual[photoId] ELSE NoRecords
           merged == Assign(old, photoState)
           st1 == [st EXCEPT
             !.individual = Assign(st.individual, (photoId :> merged)),
             !.timers = IF Has(merged, "complete") /\ merged.complete = TRUE
                        THEN st.timers \cup {<<photoId, ExpiryDelay>>}
                        ELSE st.timers,
             !.log = IF st.socket # 0 THEN Note(@, photoId, PatchKind(photoState)) ELSE @]
       IN Send(st1, [individual |-> (photoId :> merged)])
  ELSE LET st1 == [st EXCEPT !.global = Assign(st.global, newState)]
       IN Send(st1, [global |-> st1.global])

\* variant for C11: setSocket that sends no snapshot
setSocket_Silent(st, ws) == [st EXCEPT !.socket = ws]

\* setSocket(socket)
setSocket(st, ws) ==
  LET st1 == [st EXCEPT !.socket = ws]
  IN IF ws # 0 /\ (st1.global.inProgress \/ DOMAIN st1.individual # {})
     THEN Send(st1, getState(st1))
     ELSE st1

\* resetState()
resetState(st) == [st EXCEPT !.global = IdleGlobal, !.individual = NoRecords]

\* variant for C10: a timer callback that leaves the record in place
DeleteRecord_Keeps(ind, photoId) == ind

\* the callback of setTimeout in updateState: delete state.individual[photoId]
DeleteRecord(ind, photoId) == [x \in (DOMAIN ind) \ {photoId} |-> ind[x]]


\* ------------------------------------------------------------------------
\* Handler invocations.  A batch slot holds one call of downloadAllPhotos, a
\* single slot one call of downloadSinglePhoto; both run processPhoto.  A
\* slot whose call has returned is taken again by a later message.
\* Fields below the line are history kept for the properties, never read by
\* the actions' guards.
\* ------------------------------------------------------------------------
NewProc(kind) ==
  [ kind |-> kind,
    pc |-> "idle",             \* where the invocation is suspended
    photo |-> 0,               \* photo (processPhoto's argument / photos[i])
    i |-> 0,                   \* loop index of downloadAllPhotos
    skippedCount |-> 0,
    existingFileNames |-> {},
    downloadedPhotosCount |-> 0,
    missingPhotosCount |-> 0,
    totalPhotos |-> 0,         \* const totalPhotos = photos.length
    attempts |-> 0,            \* processPhoto locals
    jpegData |-> FALSE,
    newJpeg |-> "none",        \* "none" | "embedded" | "rewritten" | "raw"
    sleep |-> 0,               \* seconds left of the backoff setTimeout
    existingFile |-> FALSE,
    \* ---- history ----
    items0 |-> <<>>,           \* the item list as it was when the batch was called
    invoked |-> <<>>,          \* photos processPhoto was called for, in order
    handled |-> {},            \* photos of the batch that reached an outcome
    skipMsgs |-> {},           \* photos with a published skipping-existing message
    tries |-> 0,               \* embedding attempts of the current transfer
    downloads |-> 0,           \* downloads of the current transfer
    slept |-> 0,               \* seconds the backoff under way has lasted
    waits |-> <<>>,            \* backoff waits of the current transfer, in seconds
    warned |-> FALSE,          \* the uploading-without-EXIF warning was emitted
    uploaded |-> "none",       \* the bytes the current transfer uploaded
    result |-> "none",         \* "none" | "file" | "null" | "threw"
    threwAt |-> "none",        \* the call that threw
    cancelReq |-> FALSE,       \* a cancel message arrived during the run
    cancelAt |-> 0,            \* position in items0 of the item then in flight
    progMono |-> TRUE,         \* published totalProgress never decreased
    lastProg |-> -1,           \* last totalProgress this run published
    stale |-> FALSE,           \* an update before the terminal one showed complete or error
    before |-> NoRecords,      \* global record and session lists when the request came
    final |-> NoRecords ]      \* the global record as the run's last update left it

\* history: the client's view before any message, and its merge of a message
\* (main.ts: if (global) ...; if (individual) for (const photoId in individual) ...)
IdleMirror == [global |-> IdleGlobal, individual |-> NoRecords]

Merge(m, payload) ==
  [global |-> IF Has(payload, "global") THEN payload.global ELSE m.global,
   individual |->
     IF Has(payload, "individual")
     THEN Assign(m.individual, payload.individual)
     ELSE m.individual]

RECURSIVE MergeAll(_, _)
MergeAll(m, msgs) ==
  IF msgs = <<>> THEN m ELSE MergeAll(Merge(m, Head(msgs).payload), Tail(msgs))

NoLog == [phase |-> [id \in PhotoIds |-> "none"], ok |-> TRUE]

\* the messages st.sent leave the process; a step that sends none is Deliver
\* of an untouched Store
Deliver(st) ==
  /\ sent' = st.sent
  /\ mirror' = MergeAll(mirror, st.sent)
  /\ itemLog' = st.log
  /\ UNCHANGED <<socket, open>>

Init ==
  /\ global = IdleGlobal
  /\ individual = NoRecords
  /\ timers = {}
  /\ \E M \in SUBSET PhotoIds :
       /\ missingPhotos = SortedSeq(M)
       /\ downloadedPhotos = SortedSeq(PhotoIds \ M)
  /\ \E F \in SUBSET PhotoIds : drive = [id \in PhotoIds |-> IF id \in F THEN 1 ELSE 0]
  /\ proc = [p \in Procs |-> NewProc(IF p \in Batches THEN "batch" ELSE "single")]
  /\ runs = 0
  /\ socket = 0
  /\ open = {}
  /\ sent = <<>>
  /\ mirror = IdleMirror
  /\ itemLog = NoLog

Running(pr) == pr.pc \notin {"idle", "done"}
InFlight(pr) == pr.pc \in {"download", "sleep", "find", "upload"}

\* the slot a new call takes: the lowest one that holds no running call
FreeSlot(p, slots) ==
  /\ p \in slots
  /\ ~Running(proc[p])
  /\ \A q \in slots : q < p => Running(proc[q])

\* One catalog with a photo of each kind: photo 1 is listed missing though its
\* file is in the folder, photo 2 is missing and has none, photo 3 is
\* downloaded and has its file, photo 4 is listed downloaded and has none, ...
InitMixed ==
  /\ Init
  /\ missingPhotos = SortedSeq({id \in PhotoIds : id <= 2})
  /\ drive = [id \in PhotoIds |-> id % 2]

\* A catalog none of whose photos is listed as downloaded, the folder holding
\* the file of photo 1 only
InitAllMissing ==
  /\ Init
  /\ missingPhotos = SortedSeq(PhotoIds)
  /\ drive = [id \in PhotoIds |-> IF id = 1 THEN 1 ELSE 0]

\* no synchronous run of the batch loop is under way
EventLoopFree == \A p \in Procs : proc[p].pc # "loop"

Ctx(p) == [st |-> Store, pr |-> proc[p]]

Commit(p, c, dl, ms, dr) ==
  /\ global' = c.st.global
  /\ individual' = c.st.individual
  /\ timers' = c.st.timers
  /\ proc' = [proc EXCEPT ![p] = c.pr]
  /\ downloadedPhotos' = dl
  /\ missingPhotos' = ms
  /\ drive' = dr
  /\ Deliver(c.st)
  /\ UNCHANGED runs

\* a global updateState made by a run; the history notes the published totalProgress
GUpd(c, patch) ==
  LET st2 == updateState(c.st, patch)
      tp == st2.global.totalProgress
  IN [st |-> st2,
      pr |-> [c.pr EXCEPT !.progMono = @ /\ c.pr.lastProg <= tp, !.lastProg = tp,
                          !.stale = @ \/ (/\ ~Has(patch, "complete")
                                          /\ (st2.global.complete \/ st2.global.error # "null"))]]

\* variant for C13: a callback of downloadSinglePhoto that drops photoId as
\* the one of downloadAllPhotos does
progressCallback_Global(c, progress) == GUpd(c, Without(progress, "photoId"))

\* progressCallback: downloadAllPhotos strips photoId and updates the global
\* record; downloadSinglePhoto forces photoId to its own photo
progressCallback(c, progress) ==
  IF c.pr.kind = "batch"
  THEN GUpd(c, Without(progress, "photoId"))
  ELSE [c EXCEPT !.st = updateState(c.st, Assign(progress, [photoId |-> c.pr.photo]))]

\* the array downloadAllPhotos iterates: handleMessage passes the session's
\* missingPhotos array itself, so the loop reads it as the bookkeeping leaves it
photos == missingPhotos

\* ------------------------------------------------------------------------
\* downloadAllPhotos
\* ------------------------------------------------------------------------
\* case "download": resetState(); downloadAllPhotos(req, missingPhotos, ...)
\* up to the first await
DownloadMsg(p) ==
  /\ FreeSlot(p, Batches)
  /\ EventLoopFree
  /\ runs < MaxRuns
  /\ LET st == resetState(Store)
         pr == [NewProc("batch") EXCEPT !.pc = "setup",
                                        !.downloadedPhotosCount = Len(downloadedPhotos),
                                        !.missingPhotosCount = Len(missingPhotos),
                                        !.items0 = missingPhotos]
     IN /\ global' = st.global
        /\ individual' = st.individual
        /\ proc' = [proc EXCEPT ![p] = pr]
        /\ Deliver(st)
  /\ runs' = runs + 1
  /\ UNCHANGED <<timers, downloadedPhotos, missingPhotos, drive>>

\* variant for C25: a catch block that leaves inProgress and complete alone
BatchCatch_ErrorOnly(p, c, at) ==
  LET c1 == GUpd(c, [error |-> "An error occurred"])
      pr == [c1.pr EXCEPT !.pc = "done", !.threwAt = at, !.final = c1.st.global]
  IN Commit(p, [c1 EXCEPT !.pr = pr], downloadedPhotos, missingPhotos, drive)

\* catch (error) of downloadAllPhotos
BatchCatch(p, c, at) ==
  LET c1 == GUpd(c, [error |-> "An error occurred", complete |-> TRUE,
                     inProgress |-> FALSE, uploadStarted |-> FALSE])
      pr == [c1.pr EXCEPT !.pc = "done", !.threwAt = at, !.final = c1.st.global]
  IN Commit(p, [c1 EXCEPT !.pr = pr], downloadedPhotos, missingPhotos, drive)

\* getAuthenticatedClient, getDriveClient, findOrCreateFolder return
SetupReturns(p) ==
  /\ EventLoopFree
  /\ proc[p].kind = "batch" /\ proc[p].pc = "setup"
  /\ LET c1 == GUpd(Ctx(p), [folderLink |-> "link"])
     IN Commit(p, [c1 EXCEPT !.pr.pc = "listing"], downloadedPhotos, missingPhotos, drive)

SetupThrows(p) ==
  /\ EventLoopFree
  /\ proc[p].kind = "batch" /\ proc[p].pc = "setup"
  /\ BatchCatch(p, Ctx(p), "setup")

\* listFiles returns: the lookup set, the starting update, and on to the loop
ListFilesReturns(p) ==
  /\ EventLoopFree
  /\ proc[p].pc = "listing"
  /\ LET pr == proc[p]
         totalPhotoCount == pr.downloadedPhotosCount + pr.missingPhotosCount
         initialProgress == IF totalPhotoCount > 0
                            THEN RoundPct(pr.downloadedPhotosCount, totalPhotoCount)
                            ELSE 0
         c0 == [st |-> Store,
                pr |-> [pr EXCEPT !.existingFileNames = {id \in PhotoIds : drive[id] > 0},
                                  !.totalPhotos = Len(photos),
                                  !.i = 0, !.pc = "loop"]]
         c1 == GUpd(c0, [inProgress |-> TRUE, message |-> Msg("starting", Len(photos)),
                         total |-> Len(photos), current |-> 0,
                         totalProgress |-> initialProgress])
     IN Commit(p, c1, downloadedPhotos, missingPhotos, drive)

ListFilesThrows(p) ==
  /\ EventLoopFree
  /\ proc[p].pc = "listing"
  /\ BatchCatch(p, Ctx(p), "list")

\* variant for C38: a terminal update that leaves inProgress set
AfterLoop_StillInProgress(p, c) ==
  LET c1 == GUpd(c, [message |-> Msg("allDone", c.pr.skippedCount), complete |-> TRUE,
                     downloadProgress |-> "undefined", uploadStarted |-> FALSE])
      pr == [c1.pr EXCEPT !.pc = "done", !.final = c1.st.global]
  IN Commit(p, [c1 EXCEPT !.pr = pr], downloadedPhotos, missingPhotos, drive)

\* after the for loop: the terminal update
AfterLoop(p, c) ==
  LET c1 == GUpd(c, [message |-> Msg("allDone", c.pr.skippedCount), complete |-> TRUE,
                     inProgress |-> FALSE, downloadProgress |-> "undefined",
                     uploadStarted |-> FALSE])
      pr == [c1.pr EXCEPT !.pc = "done", !.final = c1.st.global]
  IN Commit(p, [c1 EXCEPT !.pr = pr], downloadedPhotos, missingPhotos, drive)

\* i < photos.length is false
LoopExit(p) ==
  /\ proc[p].pc = "loop"
  /\ ~(proc[p].i < Len(photos))
  /\ AfterLoop(p, Ctx(p))

\* if (getState().global.cancelled) { updateState(...); break; }
LoopCancelled(p) ==
  /\ proc[p].pc = "loop"
  /\ proc[p].i < Len(photos)
  /\ getState(Store).global.cancelled
  /\ AfterLoop(p, GUpd(Ctx(p), [message |-> Msg("cancelling", 0), complete |-> TRUE,
                                inProgress |-> FALSE, uploadStarted |-> FALSE]))

\* the bookkeeping and the progress update that end an iteration
BatchAfterItem(p, c, transferred, dr) ==
  LET pr == c.pr
      ph == pr.photo
      idx == FindIndex(missingPhotos, ph)
      ms2 == IF idx > 0 THEN Splice(missingPhotos, idx) ELSE missingPhotos
      dl2 == IF transferred /\ idx > 0 THEN Append(downloadedPhotos, ph)
             ELSE downloadedPhotos
      totalPhotoCount == pr.downloadedPhotosCount + pr.missingPhotosCount
      counts == [fileComplete |-> TRUE, downloadedCount |-> Len(dl2),
                 notDownloadedCount |-> Len(ms2), totalPhotosCount |-> totalPhotoCount,
                 totalProgress |-> RoundPct(pr.downloadedPhotosCount + pr.i + 1,
                                            totalPhotoCount)]
      patch == IF transferred THEN counts
               ELSE Assign(counts, [message |-> Msg("skipFailed", ph)])
      c1 == GUpd(c, patch)
      pr2 == [c1.pr EXCEPT !.skippedCount = IF transferred THEN @ ELSE @ + 1,
                           !.handled = @ \cup {ph},
                           !.i = @ + 1,
                           !.pc = "loop"]
  IN Commit(p, [c1 EXCEPT !.pr = pr2], dl2, ms2, dr)

\* existingFileNames.has(fileName): skip without calling processPhoto
LoopSkipExisting(p) ==
  /\ proc[p].pc = "loop"
  /\ proc[p].i < Len(photos)
  /\ ~getState(Store).global.cancelled
  /\ LET ph == photos[proc[p].i + 1]
     IN /\ ph \in proc[p].existingFileNames
        /\ LET c0 == [st |-> Store,
                      pr |-> [proc[p] EXCEPT !.photo = ph, !.skippedCount = @ + 1,
                                             !.skipMsgs = @ \cup {ph}]]
               c1 == GUpd(c0, [message |-> Msg("skipExisting", ph)])
           IN BatchAfterItem(p, c1, TRUE, drive)


\* ------------------------------------------------------------------------
\* processPhoto
\* ------------------------------------------------------------------------
\* the start of one pass of the while loop: the try block up to await downloadPhoto
BeginAttempt(c) ==
  LET c1 == progressCallback(c, [photoId |-> c.pr.photo, downloadProgress |-> 0])
  IN [c1 EXCEPT !.pr.pc = "download"]

\* the call of processPhoto up to its first await
StartTransfer(c) ==
  BeginAttempt([c EXCEPT !.pr.attempts = 0, !.pr.jpegData = FALSE,
                         !.pr.newJpeg = "none", !.pr.existingFile = FALSE,
                         !.pr.invoked = Append(@, c.pr.photo),
                         !.pr.tries = 0, !.pr.downloads = 0, !.pr.waits = <<>>,
                         !.pr.slept = 0,
                         !.pr.warned = FALSE, !.pr.uploaded = "none",
                         !.pr.result = "none"])

\* variant for C24: a loop that takes the last photo of the list first
LoopProcess_Last(p) ==
  /\ proc[p].pc = "loop"
  /\ proc[p].i < Len(photos)
  /\ ~getState(Store).global.cancelled
  /\ LET ph == photos[Len(photos)]
     IN /\ ph \notin proc[p].existingFileNames
        /\ LET c0 == [st |-> Store, pr |-> [proc[p] EXCEPT !.photo = ph]]
               c1 == GUpd(c0, [message |-> Msg("processing", ph),
                               total |-> proc[p].totalPhotos,
                               current |-> proc[p].i, status |-> "downloading"])
           IN Commit(p, StartTransfer(c1), downloadedPhotos, missingPhotos, drive)

\* the else branch of the loop: the processing update and the call of processPhoto
LoopProcess(p) ==
  /\ proc[p].pc = "loop"
  /\ proc[p].i < Len(photos)
  /\ ~getState(Store).global.cancelled
  /\ LET ph == photos[proc[p].i + 1]
     IN /\ ph \notin proc[p].existingFileNames
        /\ LET c0 == [st |-> Store, pr |-> [proc[p] EXCEPT !.photo = ph]]
               c1 == GUpd(c0, [message |-> Msg("processing", ph),
                               total |-> proc[p].totalPhotos,
                               current |-> proc[p].i, status |-> "downloading"])
           IN Commit(p, StartTransfer(c1), downloadedPhotos, missingPhotos, drive)

\* catch (error) of downloadSinglePhoto
SingleCatch(p, c, at) ==
  LET c1 == progressCallback(c, [error |-> "An error occurred", complete |-> TRUE,
                                 inProgress |-> FALSE])
      pr == [c1.pr EXCEPT !.pc = "done", !.threwAt = at, !.final = c1.st.global]
  IN Commit(p, [c1 EXCEPT !.pr = pr], downloadedPhotos, missingPhotos, drive)

\* downloadSinglePhoto after processPhoto returned
SingleAfter(p, c, res, dr) ==
  IF res = "file"
  THEN LET ph == c.pr.photo
           missingIndex == FindIndex(missingPhotos, ph)
           ms2 == IF missingIndex > 0 THEN Splice(missingPhotos, missingIndex)
                  ELSE missingPhotos
           downloadedIndex == FindIndex(downloadedPhotos, ph)
           dl1 == IF downloadedIndex > 0 THEN Splice(downloadedPhotos, downloadedIndex)
                  ELSE downloadedPhotos
           dl2 == Append(dl1, ph)
           c1 == progressCallback(c, [photoId |-> ph, fileComplete |-> TRUE,
                                      complete |-> TRUE, driveLink |-> "link",
                                      downloadProgress |-> "undefined"])
           c2 == GUpd(c1, [downloadedCount |-> Len(dl2), notDownloadedCount |-> Len(ms2),
                           totalPhotosCount |-> Len(dl2) + Len(ms2)])
           pr == [c2.pr EXCEPT !.pc = "done", !.final = c2.st.global]
       IN Commit(p, [c2 EXCEPT !.pr = pr], dl2, ms2, dr)
  ELSE Commit(p, [c EXCEPT !.pr.pc = "done", !.pr.final = c.st.global],
              downloadedPhotos, missingPhotos, dr)

\* processPhoto returns res to its caller
Return(p, c, res, dr) ==
  LET c1 == [c EXCEPT !.pr.result = res]
  IN IF c.pr.kind = "batch"
     THEN BatchAfterItem(p, c1, res = "file", dr)
     ELSE SingleAfter(p, c1, res, dr)

\* an exception leaves processPhoto
Throw(p, c, at) ==
  LET c1 == [c EXCEPT !.pr.result = "threw", !.pr.handled = @ \cup {c.pr.photo}]
  IN IF c.pr.kind = "batch" THEN BatchCatch(p, c1, at) ELSE SingleCatch(p, c1, at)

\* downloadPhoto resolved: its last progress callback
Downloaded(p) ==
  LET c1 == progressCallback(Ctx(p), [downloadProgress |-> 100, photoId |-> proc[p].photo])
  IN [c1 EXCEPT !.pr.downloads = @ + 1]

DownloadThrows(p) ==
  /\ EventLoopFree
  /\ proc[p].pc = "download"
  /\ Throw(p, [Ctx(p) EXCEPT !.pr.downloads = @ + 1], "download")

\* variant for C23: the cancellation check returning null without its message
DownloadCancelled_Silent(p) ==
  /\ EventLoopFree
  /\ proc[p].pc = "download"
  /\ getState(Store).global.cancelled
  /\ Return(p, Downloaded(p), "null", drive)

\* if (getState().global.cancelled) { progressCallback(...); return null; }
DownloadCancelled(p) ==
  /\ EventLoopFree
  /\ proc[p].pc = "download"
  /\ getState(Store).global.cancelled
  /\ LET c1 == progressCallback(Downloaded(p), [message |-> Msg("dlCancelled", 0),
                                                photoId |-> proc[p].photo])
     IN Return(p, c1, "null", drive)

\* The bytes piexif.insert(piexif.dump(exifObj), jpegData) returns.  The GPS
\* block is filled in only if (photo.pose); without a pose the EXIF segment
\* of the download is still loaded, dumped and inserted again, which gives a
\* JPEG with a rewritten segment, not the downloaded bytes themselves.
Embed(ph) == IF ph \in Posed THEN "embedded" ELSE "rewritten"

\* piexif load / dump / insert succeed: break
EmbedOk(p) ==
  /\ EventLoopFree
  /\ proc[p].pc = "download"
  /\ ~getState(Store).global.cancelled
  /\ LET c1 == Downloaded(p)
         pr == [c1.pr EXCEPT !.jpegData = TRUE, !.tries = @ + 1,
                             !.newJpeg = Embed(c1.pr.photo), !.pc = "find"]
     IN Commit(p, [c1 EXCEPT !.pr = pr], downloadedPhotos, missingPhotos, drive)

\* variant for C9: the catch block with a backoff of 1 s after every failure
PackError_FixedWait(p, c) ==
  IF c.pr.attempts < maxAttempts
  THEN LET attempts == c.pr.attempts + 1
           c1 == progressCallback(c, [message |-> Msg("retrying", attempts),
                                      photoId |-> c.pr.photo])
           c2 == IF attempts = maxAttempts
                 THEN progressCallback(c1, [message |-> Msg("allFailed", c.pr.photo),
                                            photoId |-> c.pr.photo])
                 ELSE c1
           pr == [c2.pr EXCEPT !.attempts = attempts,
                               !.warned = @ \/ attempts = maxAttempts,
                               !.sleep = 1,
                               !.slept = 0,
                               !.pc = "sleep"]
       IN Commit(p, [c2 EXCEPT !.pr = pr], downloadedPhotos, missingPhotos, drive)
  ELSE Throw(p, c, "embed")

\* the catch block for an error whose message includes "pack"
PackError(p, c) ==
  IF c.pr.attempts < maxAttempts
  THEN LET attempts == c.pr.attempts + 1
           c1 == progressCallback(c, [message |-> Msg("retrying", attempts),
                                      photoId |-> c.pr.photo])
           c2 == IF attempts = maxAttempts
                 THEN progressCallback(c1, [message |-> Msg("allFailed", c.pr.photo),
                                            photoId |-> c.pr.photo])
                 ELSE c1
           pr == [c2.pr EXCEPT !.attempts = attempts,
                               !.warned = @ \/ attempts = maxAttempts,
                               !.sleep = attempts,       \* 1000 * attempts ms
                               !.slept = 0,
                               !.pc = "sleep"]
       IN Commit(p, [c2 EXCEPT !.pr = pr], downloadedPhotos, missingPhotos, drive)
  ELSE Throw(p, c, "embed")

EmbedPackError(p) ==
  /\ EventLoopFree
  /\ proc[p].pc = "download"
  /\ ~getState(Store).global.cancelled
  /\ PackError(p, [Downloaded(p) EXCEPT !.pr.jpegData = TRUE, !.pr.tries = @ + 1])

\* any other error of the embedding: throw e
EmbedOtherError(p) ==
  /\ EventLoopFree
  /\ proc[p].pc = "download"
  /\ ~getState(Store).global.cancelled
  /\ Throw(p, [Downloaded(p) EXCEPT !.pr.jpegData = TRUE, !.pr.tries = @ + 1], "embed")

\* variant for C8: the code after the while loop without the fallback to the
\* downloaded bytes
AfterAttempts_NoFallback(p, c) ==
  IF c.pr.newJpeg = "none"
  THEN Return(p, c, "null", drive)
  ELSE Commit(p, [c EXCEPT !.pr.pc = "find"], downloadedPhotos, missingPhotos, drive)

\* the code after the while loop, up to await findFile
AfterAttempts(p, c) ==
  IF c.pr.newJpeg = "none"
  THEN IF c.pr.jpegData
       THEN Commit(p, [c EXCEPT !.pr.newJpeg = "raw", !.pr.pc = "find"],
                   downloadedPhotos, missingPhotos, drive)
       ELSE Return(p, c, "null", drive)
  ELSE Commit(p, [c EXCEPT !.pr.pc = "find"], downloadedPhotos, missingPhotos, drive)

\* the backoff timer fired: while (attempts < maxAttempts) is evaluated again
BackoffOver(p) ==
  /\ EventLoopFree
  /\ proc[p].pc = "sleep"
  /\ proc[p].sleep = 0
  /\ LET c == [Ctx(p) EXCEPT !.pr.waits = Append(@, proc[p].slept)]
     IN IF proc[p].attempts < maxAttempts
        THEN Commit(p, BeginAttempt(c), downloadedPhotos, missingPhotos, drive)
        ELSE AfterAttempts(p, c)

\* findFile returned; uploadStarted, status uploading, the upload is started
FindFileReturns(p) ==
  /\ EventLoopFree
  /\ proc[p].pc = "find"
  /\ LET c0 == [Ctx(p) EXCEPT !.pr.existingFile = drive[proc[p].photo] > 0]
         c1 == progressCallback(c0, [uploadStarted |-> TRUE, photoId |-> proc[p].photo])
         c2 == GUpd(c1, [status |-> "uploading"])
     IN Commit(p, [c2 EXCEPT !.pr.pc = "upload"], downloadedPhotos, missingPhotos, drive)

FindFileThrows(p) ==
  /\ EventLoopFree
  /\ proc[p].pc = "find"
  /\ Throw(p, Ctx(p), "find")

\* updateFile / createFile returned
UploadReturns(p) ==
  /\ EventLoopFree
  /\ proc[p].pc = "upload"
  /\ LET ph == proc[p].photo
         c1 == progressCallback(Ctx(p), [uploadProgress |-> 100, photoId |-> ph])
         dr == IF proc[p].existingFile THEN drive ELSE [drive EXCEPT ![ph] = @ + 1]
     IN Return(p, [c1 EXCEPT !.pr.uploaded = proc[p].newJpeg], "file", dr)

UploadThrows(p) ==
  /\ EventLoopFree
  /\ proc[p].pc = "upload"
  /\ Throw(p, Ctx(p), "upload")

\* ------------------------------------------------------------------------
\* downloadSinglePhoto and the other socket messages
\* ------------------------------------------------------------------------
\* case "download-photo", the photo is found: downloadSinglePhoto up to its await
DownloadPhotoMsg(p, id) ==
  /\ FreeSlot(p, Singles)
  /\ EventLoopFree
  /\ runs < MaxRuns
  /\ FindIndex(downloadedPhotos \o missingPhotos, id) > 0
  /\ proc' = [proc EXCEPT ![p] =
                [NewProc("single") EXCEPT
                   !.pc = "setup", !.photo = id,
                   !.before = [global |-> global, downloadedPhotos |-> downloadedPhotos,
                               missingPhotos |-> missingPhotos]]]
  /\ runs' = runs + 1
  /\ Deliver(Store)
  /\ UNCHANGED <<global, individual, timers, downloadedPhotos, missingPhotos, drive>>

\* variant for C18: a not-found request that also leaves an item record
DownloadPhotoNotFound_Record(id) ==
  /\ EventLoopFree
  /\ FindIndex(downloadedPhotos \o missingPhotos, id) = 0
  /\ LET st == updateState(updateState(Store, [error |-> "not found"]),
                           [photoId |-> id, error |-> "not found"])
     IN global' = st.global /\ individual' = st.individual /\ Deliver(st)
  /\ UNCHANGED <<timers, downloadedPhotos, missingPhotos, drive, proc, runs>>

\* case "download-photo", no photo has the id
DownloadPhotoNotFound(id) ==
  /\ EventLoopFree
  /\ FindIndex(downloadedPhotos \o missingPhotos, id) = 0
  /\ LET st == updateState(Store, [error |-> "not found"])
     IN global' = st.global /\ Deliver(st)
  /\ UNCHANGED <<individual, timers, downloadedPhotos, missingPhotos, drive, proc, runs>>

SingleSetupReturns(p) ==
  /\ EventLoopFree
  /\ proc[p].kind = "single" /\ proc[p].pc = "setup"
  /\ LET c1 == progressCallback(Ctx(p), [message |-> Msg("starting", 1)])
     IN Commit(p, StartTransfer(c1), downloadedPhotos, missingPhotos, drive)

SingleSetupThrows(p) ==
  /\ EventLoopFree
  /\ proc[p].kind = "single" /\ proc[p].pc = "setup"
  /\ SingleCatch(p, Ctx(p), "setup")

\* case "cancel-download": cancelDownload()
CancelMsg ==
  /\ EventLoopFree
  /\ LET st == updateState(Store, [cancelled |-> TRUE])
     IN global' = st.global /\ Deliver(st)
  /\ proc' = [p \in Procs |->
                IF Running(proc[p])
                THEN [proc[p] EXCEPT
                        !.cancelReq = TRUE,
                        !.cancelAt = IF @ = 0 /\ InFlight(proc[p])
                                     THEN FindIndex(proc[p].items0, proc[p].photo)
                                     ELSE @]
                ELSE proc[p]]
  /\ UNCHANGED <<individual, timers, downloadedPhotos, missingPhotos, drive, runs>>

\* ------------------------------------------------------------------------
\* Time
\* ------------------------------------------------------------------------
\* an expiry timer of updateState fires
ExpireTimer(t) ==
  /\ EventLoopFree
  /\ t \in timers
  /\ t[2] = 0
  /\ individual' = DeleteRecord(individual, t[1])
  /\ timers' = timers \ {t}
  /\ Deliver(Store)
  /\ UNCHANGED <<global, downloadedPhotos, missingPhotos, drive, proc, runs>>

\* one second passes; nothing that is due is left waiting
Tick ==
  /\ EventLoopFree
  /\ \A t \in timers : t[2] > 0
  /\ \A p \in Procs : proc[p].pc = "sleep" => proc[p].sleep > 0
  /\ timers' = {<<t[1], t[2] - 1>> : t \in timers}
  /\ proc' = [p \in Procs |->
                IF proc[p].pc = "sleep"
                THEN [proc[p] EXCEPT !.sleep = @ - 1, !.slept = @ + 1]
                ELSE proc[p]]
  /\ Deliver(Store)
  /\ UNCHANGED <<global, individual, downloadedPhotos, missingPhotos, drive, runs>>

\* ------------------------------------------------------------------------
\* Client connections (webapp.ts)
\* ------------------------------------------------------------------------
\* wss.on("connection"): setSocket(ws)
Connect(w) ==
  /\ EventLoopFree
  /\ w \in Conns \ open
  /\ open' = open \cup {w}
  /\ LET st == setSocket(Store, w)
     IN /\ socket' = st.socket
        /\ sent' = st.sent
        \* the snapshot if one is sent; otherwise the page the client has
        \* just loaded is taken to show the store as it is
        /\ mirror' = MergeAll(IF st.sent = <<>> THEN getState(st) ELSE IdleMirror, st.sent)
  /\ itemLog' = NoLog
  /\ UNCHANGED <<global, individual, timers, downloadedPhotos, missingPhotos, drive,
                 proc, runs>>

\* ws.on("close"): setSocket(null)
Close(w) ==
  /\ EventLoopFree
  /\ w \in open
  /\ open' = open \ {w}
  /\ LET st == setSocket(Store, 0)
     IN socket' = st.socket /\ sent' = st.sent
  /\ UNCHANGED <<global, individual, timers, downloadedPhotos, missingPhotos, drive,
                 proc, runs, mirror, itemLog>>

\* the steps of downloadAllPhotos between its awaits
BatchSteps ==
  \/ \E p \in Batches : SetupReturns(p)
  \/ \E p \in Batches : SetupThrows(p)
  \/ \E p \in Batches : ListFilesReturns(p)
  \/ \E p \in Batches : ListFilesThrows(p)
  \/ \E p \in Batches : LoopExit(p)
  \/ \E p \in Batches : LoopCancelled(p)
  \/ \E p \in Batches : LoopSkipExisting(p)
  \/ \E p \in Batches : LoopProcess(p)

\* the steps of processPhoto between its awaits
TransferSteps ==
  \/ \E p \in Procs : DownloadThrows(p)
  \/ \E p \in Procs : DownloadCancelled(p)
  \/ \E p \in Procs : EmbedOk(p)
  \/ \E p \in Procs : EmbedPackError(p)
  \/ \E p \in Procs : EmbedOtherError(p)
  \/ \E p \in Procs : BackoffOver(p)
  \/ \E p \in Procs : FindFileReturns(p)
  \/ \E p \in Procs : FindFileThrows(p)
  \/ \E p \in Procs : UploadReturns(p)
  \/ \E p \in Procs : UploadThrows(p)

\* the steps of downloadSinglePhoto between its awaits
SingleSteps ==
  \/ \E p \in Singles : SingleSetupReturns(p)
  \/ \E p \in Singles : SingleSetupThrows(p)

\* The whole system: every message may arrive whenever the event loop is free.
Next ==
  \/ \E p \in Batches : DownloadMsg(p)
  \/ \E p \in Singles, id \in PhotoIds : DownloadPhotoMsg(p, id)
  \/ DownloadPhotoNotFound(UnknownId)
  \/ CancelMsg
  \/ BatchSteps
  \/ SingleSteps
  \/ TransferSteps
  \/ \E t \in timers : ExpireTimer(t)
  \/ Tick
  \/ \E w \in Conns : Connect(w)
  \/ \E w \in Conns : Close(w)

Spec == Init /\ [][Next]_vars

\* ------------------------------------------------------------------------
\* The specifications the properties are checked under.  Each is Spec with
\* an environment that sends fewer messages, so each of their behaviours is
\* a behaviour of Spec.
\* ------------------------------------------------------------------------
\* no call of downloadAllPhotos or downloadSinglePhoto is under way
NoneRunning == \A p \in Procs : ~Running(proc[p])

\* SpecBatch: `download` is sent only while no batch is running;
\* `cancel-download` and `download-photo` for an unknown id come at any time
NextBatch ==
  \/ \E p \in Batches : NoneRunning /\ DownloadMsg(p)
  \/ DownloadPhotoNotFound(UnknownId)
  \/ CancelMsg
  \/ BatchSteps
  \/ TransferSteps
  \/ Tick

SpecBatch == Init /\ [][NextBatch]_vars

\* the call in slot p is suspended at s and the event loop can resume it
At(p, s) == EventLoopFree /\ proc[p].pc = s

\* SpecBatchLive: SpecBatch in which every external call a batch awaits
\* returns or throws, every continuation that is ready is run by the event
\* loop, and time goes on.  Each condition on a batch is weak fairness of the
\* steps that resume it at one await, WF_vars(A) written as
\* []<>~ENABLED <<A>>_vars \/ []<><<A>>_vars with the guard of A for ENABLED.
SpecBatchLive ==
  /\ SpecBatch
  /\ WF_vars(Tick)
  /\ \A p \in Batches :
       /\ []<>(~At(p, "setup")) \/ []<><<SetupReturns(p) \/ SetupThrows(p)>>_vars
       /\ []<>(~At(p, "listing")) \/ []<><<ListFilesReturns(p) \/ ListFilesThrows(p)>>_vars
       /\ []<>(proc[p].pc # "loop")
            \/ []<><<LoopExit(p) \/ LoopCancelled(p) \/ LoopSkipExisting(p) \/ LoopProcess(p)>>_vars
       /\ []<>(~At(p, "download"))
            \/ []<><<DownloadThrows(p) \/ DownloadCancelled(p) \/ EmbedOk(p)
                      \/ EmbedPackError(p) \/ EmbedOtherError(p)>>_vars
       /\ []<>(~(At(p, "sleep") /\ proc[p].sleep = 0)) \/ []<><<BackoffOver(p)>>_vars
       /\ []<>(~At(p, "find")) \/ []<><<FindFileReturns(p) \/ FindFileThrows(p)>>_vars
       /\ []<>(~At(p, "upload")) \/ []<><<UploadReturns(p) \/ UploadThrows(p)>>_vars

\* SpecSingle: `download-photo` for a photo of the catalog is sent only while
\* no other is being handled; `cancel-download` comes at any time
NextSingle ==
  \/ \E p \in Singles, id \in PhotoIds : NoneRunning /\ DownloadPhotoMsg(p, id)
  \/ CancelMsg
  \/ SingleSteps
  \/ TransferSteps
  \/ \E t \in timers : ExpireTimer(t)
  \/ Tick

SpecSingle == InitMixed /\ [][NextSingle]_vars

\* SpecOverlap: `download` is sent again while a batch is still running
NextOverlap ==
  \/ \E p \in Batches : DownloadMsg(p)
  \/ CancelMsg
  \/ BatchSteps
  \/ TransferSteps
  \/ Tick

SpecOverlap == InitMixed /\ [][NextOverlap]_vars

\* A catalog none of whose photos is listed as downloaded, the folder empty
InitEmptyFolder ==
  /\ Init
  /\ missingPhotos = SortedSeq(PhotoIds)
  /\ drive = [id \in PhotoIds |-> 0]

\* SpecCancelThenDownload: `download` and `cancel-download` are sent at any
\* time, also while a batch is running; every external call succeeds
NextCancelThenDownload ==
  \/ \E p \in Batches : DownloadMsg(p)
  \/ CancelMsg
  \/ \E p \in Batches : SetupReturns(p)
  \/ \E p \in Batches : ListFilesReturns(p)
  \/ \E p \in Batches : LoopExit(p)
  \/ \E p \in Batches : LoopCancelled(p)
  \/ \E p \in Batches : LoopProcess(p)
  \/ \E p \in Batches : DownloadCancelled(p)
  \/ \E p \in Batches : EmbedOk(p)
  \/ \E p \in Batches : FindFileReturns(p)
  \/ \E p \in Batches : UploadReturns(p)

SpecCancelThenDownload == InitEmptyFolder /\ [][NextCancelThenDownload]_vars

\* SpecChannel: a client connects and disconnects at any time while one
\* batch or one single download runs; `cancel-download` comes at any time
NextChannel ==
  \/ \E w \in Conns : Connect(w)
  \/ \E w \in Conns : Close(w)
  \/ \E p \in Batches : runs = 0 /\ DownloadMsg(p)
  \/ \E p \in Singles, id \in PhotoIds : runs = 0 /\ DownloadPhotoMsg(p, id)
  \/ CancelMsg
  \/ BatchSteps
  \/ SingleSteps
  \/ TransferSteps
  \/ \E t \in timers : ExpireTimer(t)
  \/ Tick

SpecChannel == InitAllMissing /\ [][NextChannel]_vars

\* SpecTwoSingles: `download-photo` for photo 2, which is missing and has no
\* file in the folder, is sent again while the first request is still being
\* handled; every external call succeeds; a client may attach beforehand
NextTwoSingles ==
  \/ \E w \in Conns : runs = 0 /\ Connect(w)
  \/ \E p \in Singles : DownloadPhotoMsg(p, 2)
  \/ \E p \in Singles : SingleSetupReturns(p)
  \/ \E p \in Singles : EmbedOk(p)
  \/ \E p \in Singles : FindFileReturns(p)
  \/ \E p \in Singles : UploadReturns(p)
  \/ \E t \in timers : ExpireTimer(t)
  \/ Tick

SpecTwoSingles == InitMixed /\ [][NextTwoSingles]_vars

\* SpecBatchAndSingle: `download-photo` is sent while a batch is running (and
\* at other times); no two batches and no two single downloads overlap;
\* `cancel-download` comes at any time; the download of a photo may fail,
\* every other external call succeeds
NextBatchAndSingle ==
  \/ \E p \in Batches : (\A q \in Batches : ~Running(proc[q])) /\ DownloadMsg(p)
  \/ \E p \in Singles, id \in PhotoIds :
       (\A q \in Singles : ~Running(proc[q])) /\ DownloadPhotoMsg(p, id)
  \/ \E p \in Batches : SetupReturns(p)
  \/ \E p \in Batches : ListFilesReturns(p)
  \/ CancelMsg
  \/ \E p \in Batches : LoopExit(p)
  \/ \E p \in Batches : LoopCancelled(p)
  \/ \E p \in Batches : LoopSkipExisting(p)
  \/ \E p \in Batches : LoopProcess(p)
  \/ \E p \in Singles : SingleSetupReturns(p)
  \/ \E p \in Singles : SingleSetupThrows(p)
  \/ \E p \in Procs : DownloadThrows(p)
  \/ \E p \in Procs : DownloadCancelled(p)
  \/ \E p \in Procs : EmbedOk(p)
  \/ \E p \in Procs : FindFileReturns(p)
  \/ \E p \in Procs : UploadReturns(p)
  \/ \E t \in timers : ExpireTimer(t)
  \/ Tick

SpecBatchAndSingle == InitAllMissing /\ [][NextBatchAndSingle]_vars


\* ------------------------------------------------------------------------
\* Properties
\* ------------------------------------------------------------------------
BatchDone(p) == proc[p].kind = "batch" /\ proc[p].pc = "done"

\* a run during which no cancel was requested and no call threw
Clean(pr) == ~pr.cancelReq /\ pr.threwAt = "none" /\ pr.result # "null"

\* the items of a batch whose file the folder held when it was listed
Held(pr) == Range(pr.items0) \cap pr.existingFileNames

\* C1 (idempotent resume): a batch that ran to its end with no cancel and no
\* failure has called processPhoto exactly len(items) - |S| times, once for
\* every item outside S and never for an item of S, S being the items whose
\* <id>.jpg the destination folder held.
C1_IdempotentResume ==
  \A p \in Batches :
    (BatchDone(p) /\ Clean(proc[p])) =>
      /\ Len(proc[p].invoked) = Len(proc[p].items0) - Cardinality(Held(proc[p]))
      /\ Range(proc[p].invoked) = Range(proc[p].items0) \ Held(proc[p])

\* C2 (scenario): a batch over the items <<1, 2, 3>> of which only 2 has its
\* file in the folder, all transfers succeeding, publishes the skipping
\* message for 2, calls processPhoto for 1 and 3 only and ends with
\* downloadedCount two above its value before the batch, totalProgress 100
\* and complete = TRUE.
C2_SkipScenario ==
  \A p \in Batches :
    (/\ BatchDone(p) /\ Clean(proc[p])
     /\ proc[p].items0 = <<1, 2, 3>>
     /\ Held(proc[p]) = {2}) =>
      /\ 2 \in proc[p].skipMsgs
      /\ proc[p].invoked = <<1, 3>>
      /\ proc[p].final.downloadedCount = proc[p].downloadedPhotosCount + 2
      /\ proc[p].final.totalProgress = 100
      /\ proc[p].final.complete

\* C3 (progress monotonicity): in a batch with no cancel and no error the
\* totalProgress values of its global updates never decrease, and the last
\* one is 100.
C3_ProgressMonotone ==
  \A p \in Batches :
    (BatchDone(p) /\ Clean(proc[p])) =>
      proc[p].progMono /\ proc[p].lastProg = 100

\* C4 (cancellation boundary): when cancel is requested while the item at
\* position k of the item list is in flight, no item after position k is ever
\* handed to processPhoto or given a progress record, and when the batch has
\* ended every item at positions 1..k has reached an outcome (transferred,
\* skipped, or failed).
C4_CancelBoundary ==
  \A p \in Batches :
    proc[p].cancelAt > 0 =>
      /\ \A j \in (proc[p].cancelAt + 1)..Len(proc[p].items0) :
           /\ proc[p].items0[j] \notin Range(proc[p].invoked)
           /\ proc[p].items0[j] \notin DOMAIN individual
      /\ BatchDone(p) =>
           \A j \in 1..proc[p].cancelAt : proc[p].items0[j] \in proc[p].handled

\* C5 (item-level errors never abort the batch): a batch ends in the error
\* terminal state only when its setup (authentication, folder, listing)
\* failed, never because processPhoto threw for an item.
C5_ItemErrorsDoNotAbort ==
  \A p \in Batches :
    (BatchDone(p) /\ proc[p].final.error # "null") =>
      proc[p].threwAt \in {"setup", "list"}

\* C6 (error paths): whenever the global error field is set, inProgress is
\* FALSE and complete is TRUE.
C6_ErrorIsTerminal ==
  global.error # "null" => (~global.inProgress /\ global.complete)

\* C7 (single concurrent batch): at most one call of downloadAllPhotos is
\* under way at any time.
C7_SingleBatch ==
  Cardinality({p \in Batches : Running(proc[p])}) <= 1

\* C8 (embed fallback): a transfer whose embedding failed with the transient
\* error maxAttempts times has made exactly that many attempts, has emitted
\* the warning, goes on to upload the raw downloaded bytes, and ends with a
\* file reference unless findFile or the upload itself throws.
C8_EmbedFallback ==
  \A p \in Procs :
    proc[p].attempts = maxAttempts =>
      /\ proc[p].tries = maxAttempts
      /\ proc[p].warned
      /\ proc[p].pc \in {"find", "upload"} => proc[p].newJpeg = "raw"
      /\ proc[p].result \in {"none", "file", "threw"}
      /\ proc[p].result = "threw" => proc[p].threwAt \in {"find", "upload"}
      /\ proc[p].result = "file" => proc[p].uploaded = "raw"

C8_Witness ==
  \E p \in Procs :
    /\ proc[p].attempts = maxAttempts
    /\ proc[p].result = "file"
    /\ proc[p].uploaded = "raw"

\* C9 (embed retry): a transfer whose embedding failed with the transient
\* error twice and then succeeded has made 3 attempts and 2 backoff waits,
\* of 1 s and then 2 s, and uploads the embedded bytes.
C9_EmbedRetry ==
  \A p \in Procs :
    (proc[p].attempts = 2 /\ proc[p].newJpeg = "embedded") =>
      /\ proc[p].tries = 3
      /\ proc[p].waits = <<1, 2>>
      /\ proc[p].result = "file" => proc[p].uploaded = "embedded"

C9_Witness ==
  \E p \in Procs :
    /\ proc[p].attempts = 2
    /\ proc[p].newJpeg = "embedded"
    /\ proc[p].result = "file"

\* C10 (item-record expiry): the update that leaves an item's record
\* complete leaves it in getState(); a complete record always has a pending
\* expiry timer, which is due ExpiryDelay seconds after that update and
\* removes the record when it fires; and a removed record stays out of
\* getState() while no download of that photo is under way.
IsComplete(ind, id) ==
  id \in DOMAIN ind /\ Has(ind[id], "complete") /\ ind[id].complete = TRUE

C10_ItemRecordExpiry ==
  /\ [](\A id \in PhotoIds :
          IsComplete(getState(Store).individual, id)
            => \E t \in timers : t[1] = id /\ t[2] \in 0..ExpiryDelay)
  /\ [][\A id \in PhotoIds :
          /\ (<<id, ExpiryDelay>> \in timers' /\ <<id, ExpiryDelay>> \notin timers)
               => IsComplete(individual', id)
          /\ (<<id, 0>> \in timers /\ <<id, 0>> \notin timers')
               => id \notin DOMAIN individual'
          /\ (id \notin DOMAIN individual /\ id \in DOMAIN individual')
               => \E p \in Singles : Running(proc[p]) /\ proc[p].photo = id]_vars

C10_Witness ==
  \E p \in Singles :
    /\ proc[p].pc = "done"
    /\ proc[p].result = "file"
    /\ proc[p].photo \notin DOMAIN individual
    /\ \A t \in timers : t[1] # proc[p].photo

\* C11 (late-attach snapshot): the step in which a connection is attached
\* while a batch is in progress or an item record exists sends that
\* connection exactly one message, whose payload is the current global
\* record and all the item records.
C11_LateAttachSnapshot ==
  [][\A w \in Conns :
       (/\ w \notin open /\ w \in open' /\ socket' = w
        /\ (global.inProgress \/ DOMAIN individual # {}))
         => sent' = << [to |-> w,
                        payload |-> [global |-> global', individual |-> individual']] >>]_vars

C11_Witness ==
  /\ Len(sent) = 1
  /\ Has(sent[1].payload, "global") /\ Has(sent[1].payload, "individual")
  /\ sent[1].payload.global.inProgress
  /\ sent[1].payload = getState(Store)

\* C12 (no duplicate destination files): the destination folder never holds
\* more than one file <id>.jpg for any photo.
C12_NoDuplicateFiles ==
  \A id \in PhotoIds : drive[id] <= 1

\* C13 (frame of the single-item orchestrator): no step of a call of
\* downloadSinglePhoto, whether it succeeds or fails, changes the global
\* inProgress or cancelled field.
C13_SingleKeepsFlags ==
  [][(\E p \in Singles : proc'[p].pc # proc[p].pc)
       => /\ global'.inProgress = global.inProgress
          /\ global'.cancelled = global.cancelled]_vars

\* a single download has failed while a batch is in progress
C13_Witness ==
  \E p \in Singles :
    /\ proc[p].pc = "done" /\ proc[p].threwAt = "download"
    /\ global.inProgress
    /\ proc[p].photo \in DOMAIN individual
    /\ Has(individual[proc[p].photo], "inProgress")

\* C14 (single downloads ignore cancellation): a call of downloadSinglePhoto
\* none of whose external calls threw has uploaded the file and published the
\* terminal record of its photo, whatever the global cancelled flag was
\* during the run.
C14_SingleIgnoresCancel ==
  \A p \in Singles :
    (proc[p].pc = "done" /\ proc[p].threwAt = "none") =>
      /\ proc[p].result = "file"
      /\ proc[p].uploaded # "none"

\* C15 (cancellation only at item boundaries): the cancelled flag is read
\* only at the top of a loop iteration, so every transfer a batch has started
\* runs to its upload or fails: processPhoto never comes back to the batch
\* with null.
C15_CancelOnlyAtBoundaries ==
  \A p \in Batches : proc[p].result # "null"

\* C16 (per-item notification order): among the item messages sent to the
\* attached connection for one photo, no download-progress message follows
\* an upload-progress message of a transfer that has not yet sent its
\* terminal message, and no upload-progress message follows a terminal
\* message without a download-progress message in between.
C16_ItemMessageOrder ==
  itemLog.ok

\* C17 (client view consistency): a client that is attached, started from
\* the attach snapshot (or, when none is sent, from an exact view of the
\* store) and merged every message it was sent holds the same global record and the same item records as getState().
C17_MirrorEqualsState ==
  socket # 0 => mirror = getState(Store)

\* C18 (NotFoundError): the step that handles a `download-photo` request for
\* an unknown id sets the global error message and changes nothing else: no
\* call of processPhoto is started or advanced, no item record is created,
\* the session lists and the folder are as before, and no run is started.
C18_NotFoundOnlySetsError ==
  [][(global'.error = "not found" /\ global.error # "not found")
       => /\ global' = Assign(global, [error |-> "not found"])
          /\ individual' = individual
          /\ proc' = proc
          /\ runs' = runs
          /\ timers' = timers
          /\ downloadedPhotos' = downloadedPhotos
          /\ missingPhotos' = missingPhotos
          /\ drive' = drive]_vars

\* the request was handled while a batch was transferring a photo
C18_Witness ==
  /\ global.error = "not found"
  /\ \E p \in Batches : InFlight(proc[p])

\* C19 (updateState routing): in every reachable state, updateState of a
\* patch with an item id merges the patch into that item's record (created
\* if absent), leaves the global record and the other item records as they
\* are and, when a connection is attached, sends it one message holding that
\* item's record only; updateState of a patch without an item id merges it
\* into the global record, leaves every item record as it is and sends one
\* message holding the whole global record.
ItemPatches ==
  { [photoId |-> id, downloadProgress |-> 50] : id \in PhotoIds }
    \cup { [photoId |-> id, uploadStarted |-> TRUE, message |-> NoMessage] : id \in PhotoIds }

GlobalPatches ==
  { [message |-> Msg("processing", 1), current |-> 1],
    [totalProgress |-> 50],
    [downloadProgress |-> 50] }

C19_UpdateStateRouting ==
  /\ \A patch \in ItemPatches :
       LET st2 == updateState(Store, patch)
           id == patch.photoId
           old == IF id \in DOMAIN individual THEN individual[id] ELSE NoRecords
       IN /\ st2.global = global
          /\ DOMAIN st2.individual = DOMAIN individual \cup {id}
          /\ \A x \in DOMAIN individual : x # id => st2.individual[x] = individual[x]
          /\ st2.individual[id] = Assign(old, Without(patch, "photoId"))
          /\ st2.sent = IF socket = 0 THEN <<>>
                        ELSE << [to |-> socket,
                                 payload |-> [individual |-> (id :> st2.individual[id])]] >>
  /\ \A patch \in GlobalPatches :
       LET st2 == updateState(Store, patch)
       IN /\ st2.individual = individual
          /\ st2.global = Assign(global, patch)
          /\ st2.sent = IF socket = 0 THEN <<>>
                        ELSE << [to |-> socket, payload |-> [global |-> st2.global]] >>

\* processPhoto has just sent an item message and then a global message to
\* the attached connection
C19_Witness ==
  /\ socket # 0
  /\ Len(sent) = 2
  /\ Has(sent[1].payload, "individual") /\ ~Has(sent[1].payload, "global")
  /\ Has(sent[2].payload, "global") /\ ~Has(sent[2].payload, "individual")
  /\ sent[2].payload.global = global
  /\ \E id \in DOMAIN individual : sent[1].payload.individual = (id :> individual[id])

\* C20 (per-item lifecycle in a batch): while a batch is transferring a photo
\* the store holds an item record for it, and the global record never carries
\* the item-scoped fields downloadProgress, uploadProgress or uploadStarted.
C20_BatchItemLifecycle ==
  /\ \A p \in Batches : InFlight(proc[p]) => proc[p].photo \in DOMAIN individual
  /\ ~Has(global, "downloadProgress")
  /\ ~Has(global, "uploadProgress")
  /\ ~Has(global, "uploadStarted")

\* C21 (reset before batch): every global update a batch publishes before
\* its own terminal update (the first to carry complete) shows
\* complete = FALSE and error = null.
C21_NoStaleTerminalState ==
  \A p \in Batches : ~proc[p].stale

\* C22 (linear global state machine): in every reachable state the global
\* record does not have inProgress and complete both TRUE.
C22_NotInProgressAndComplete ==
  ~(global.inProgress /\ global.complete)

\* C23 (cancellation check of processPhoto): the step in which processPhoto
\* returns null is the one that follows a download with the cancelled flag
\* set; it makes no embedding attempt and no upload, and sends the
\* cancellation message to an attached connection.  A batch takes the null
\* as not transferred: it counts the photo as skipped, does not list it as
\* downloaded, publishes no error and goes on with its loop.
CancelNotice(m, ph) ==
  \/ Has(m.payload, "global") /\ m.payload.global.message = Msg("dlCancelled", 0)
  \/ /\ Has(m.payload, "individual") /\ ~Has(m.payload, "global")
     /\ ph \in DOMAIN m.payload.individual
     /\ Has(m.payload.individual[ph], "message")
     /\ m.payload.individual[ph].message = Msg("dlCancelled", 0)

C23_CancelCheckReturnsNull ==
  [][\A p \in Procs :
       (proc'[p].result = "null" /\ proc[p].result # "null") =>
         /\ proc[p].pc = "download" /\ global.cancelled
         /\ proc'[p].tries = proc[p].tries
         /\ proc'[p].uploaded = "none"
         /\ drive' = drive
         /\ socket # 0 => \E k \in 1..Len(sent') : CancelNotice(sent'[k], proc[p].photo)
         /\ proc'[p].threwAt = "none"
         /\ global'.error = global.error
         /\ p \in Batches =>
              /\ proc'[p].pc = "loop"
              /\ proc'[p].skippedCount = proc[p].skippedCount + 1
              /\ downloadedPhotos' = downloadedPhotos]_vars

C23_Witness ==
  \E p \in Batches :
    /\ proc[p].result = "null" /\ proc[p].pc = "loop"
    /\ socket # 0
    /\ \E k \in 1..Len(sent) : CancelNotice(sent[k], proc[p].photo)

\* C24 (sequential, in-order processing): the photos a batch hands to
\* processPhoto are photos of its item list, each handed over once and in
\* the order of the list; and a photo is handed over or skipped only from the
\* top of the loop, after the transfer before it has returned.
C24_InOrderOneAtATime ==
  /\ [](\A p \in Batches :
          \A j, k \in 1..Len(proc[p].invoked) :
            /\ FindIndex(proc[p].items0, proc[p].invoked[j]) > 0
            /\ j < k => FindIndex(proc[p].items0, proc[p].invoked[j])
                          < FindIndex(proc[p].items0, proc[p].invoked[k]))
  /\ [][\A p \in Batches :
          (\/ Len(proc'[p].invoked) > Len(proc[p].invoked)
           \/ proc'[p].skipMsgs # proc[p].skipMsgs) /\ proc[p].pc # "idle" /\ proc[p].pc # "done"
            => /\ proc[p].pc = "loop"
               /\ Len(proc[p].invoked) > 0 => proc[p].result \in {"file", "null"}]_vars

C24_Witness ==
  \E p \in Batches :
    /\ proc[p].pc = "done"
    /\ Len(proc[p].invoked) >= 2
    /\ proc[p].result = "file"

\* C25 (batch fatal error): a batch in which a call threw, during setup or
\* inside the loop, has ended; its last update set error, complete = TRUE
\* and inProgress = FALSE; and it hands no further photo to processPhoto.
C25_BatchFatalError ==
  /\ [](\A p \in Batches :
          proc[p].threwAt # "none" =>
            /\ proc[p].pc = "done"
            /\ proc[p].final.error = "An error occurred"
            /\ proc[p].final.complete
            /\ ~proc[p].final.inProgress)
  /\ [][\A p \in Batches :
          (proc[p].threwAt # "none" /\ proc'[p].threwAt # "none")
            => proc'[p].invoked = proc[p].invoked]_vars

\* the download of a photo threw while another photo was still missing
C25_Witness ==
  \E p \in Batches :
    /\ proc[p].threwAt = "download"
    /\ proc[p].pc = "done"
    /\ \E j \in 1..Len(proc[p].items0) :
         /\ proc[p].items0[j] \notin proc[p].handled
         /\ proc[p].items0[j] \notin proc[p].existingFileNames

\* C26 (only the transient embedding failure is retried): a transfer that
\* ended with an exception (a download failure, an upload failure or an
\* embedding error other than the transient one) made exactly one download.
C26_OtherErrorsOneDownload ==
  \A p \in Procs :
    proc[p].result = "threw" /\ proc[p].threwAt \in {"download", "embed", "find", "upload"}
      => proc[p].downloads = 1

\* C27 (backoff schedule): a transfer waits only between embedding attempts:
\* it makes at most two waits, and no wait is under way after the last
\* (maxAttempts-th) failed attempt.
C27_BackoffSchedule ==
  \A p \in Procs :
    /\ Len(proc[p].waits) <= 2
    /\ proc[p].pc = "sleep" => proc[p].attempts < maxAttempts

\* C28 (photo without pose): a transfer of a photo that has no pose makes no
\* embedding attempt, and when it has uploaded, the uploaded bytes are the
\* downloaded bytes.
C28_NoPoseUploadsRaw ==
  \A p \in Procs :
    (/\ Len(proc[p].invoked) > 0
     /\ proc[p].invoked[Len(proc[p].invoked)] \notin Posed
     /\ proc[p].result = "file")
      => /\ proc[p].tries = 0
         /\ proc[p].uploaded = "raw"

\* C29 (single-item failure): the step in which a single download ends with
\* an exception leaves an error in the record of its photo, and leaves the
\* session lists and the global record as they were when the request came
\* (no cancel request having come in between).
C29_SingleFailureFrame ==
  [][\A p \in Singles :
       (/\ proc[p].pc # "done" /\ proc'[p].pc = "done"
        /\ proc'[p].threwAt # "none"
        /\ ~proc'[p].cancelReq)
         => /\ proc[p].photo \in DOMAIN individual'
            /\ Has(individual'[proc[p].photo], "error")
            /\ downloadedPhotos' = proc[p].before.downloadedPhotos
            /\ missingPhotos' = proc[p].before.missingPhotos
            /\ global' = proc[p].before.global]_vars

\* C30 (totalProgress arithmetic): at the top of its loop the last
\* totalProgress a batch has published is round(100 * already / (already +
\* missing)) (0 when that total is 0) if it has handled no item yet, and
\* round(100 * (already + i + 1) / (already + missing)) if the item it has
\* just handled is the one at index i (from 0) of its item list; and every
\* published totalProgress is in 0..100.
C30_TotalProgressArithmetic ==
  \A p \in Batches :
    LET pr == proc[p]
        already == pr.downloadedPhotosCount
        total == pr.downloadedPhotosCount + pr.missingPhotosCount
    IN /\ pr.lastProg # -1 => pr.lastProg \in 0..100
       /\ (pr.pc = "loop" /\ pr.handled = {}) =>
            pr.lastProg = IF total > 0 THEN RoundPct(already, total) ELSE 0
       /\ (pr.pc = "loop" /\ pr.handled # {}) =>
            pr.lastProg = RoundPct(already + FindIndex(pr.items0, pr.photo), total)

\* C31 (updates while detached are dropped): a step taken while no
\* connection is attached sends no message, whatever it does to the store,
\* and the stored global record still takes the update (the totalProgress a
\* batch publishes is the stored one); the step that attaches a connection
\* sends it at most one message, the snapshot of the store as it is then,
\* and nothing of the updates made before.
C31_DetachedUpdatesDropped ==
  [][/\ (socket = 0 /\ socket' = 0) =>
          /\ sent' = <<>>
          /\ \A p \in Batches :
               proc'[p].lastProg # proc[p].lastProg /\ proc'[p].lastProg # -1
                 => global'.totalProgress = proc'[p].lastProg
     /\ (socket' # 0 /\ socket' # socket) =>
          /\ Len(sent') <= 1
          /\ \A k \in 1..Len(sent') :
               sent'[k] = [to |-> socket',
                           payload |-> [global |-> global', individual |-> individual']]]_vars

\* no connection is attached, a batch is in progress, nothing was sent and
\* the last client never heard of the batch
C31_Witness ==
  /\ socket = 0
  /\ sent = <<>>
  /\ global.inProgress
  /\ global.totalProgress > 0
  /\ ~mirror.global.inProgress

\* C32 (channel ownership under reconnect): the connection the store's
\* socket refers to stays the store's socket for as long as it is open and
\* no newer connection is attached; in particular a step that closes another,
\* older connection leaves it attached.
C32_LatestConnectionKeepsChannel ==
  [][\A w \in Conns :
       (socket = w /\ w \in open /\ w \in open' /\ open' \subseteq open)
         => socket' = w]_vars

\* C33 (bookkeeping conservation): the session's downloaded and missing
\* lists are disjoint and free of duplicates and together hold every photo
\* of the catalog; a global record that carries the counts has
\* downloadedCount + notDownloadedCount = totalPhotosCount; and the photo of
\* a transfer that returned null or threw is still in the missing list if it
\* was there when the run began.
C33_BookkeepingConservation ==
  /\ Range(downloadedPhotos) \cap Range(missingPhotos) = {}
  /\ Cardinality(Range(downloadedPhotos)) = Len(downloadedPhotos)
  /\ Cardinality(Range(missingPhotos)) = Len(missingPhotos)
  /\ Range(downloadedPhotos) \cup Range(missingPhotos) = PhotoIds
  /\ Has(global, "downloadedCount") =>
       global.downloadedCount + global.notDownloadedCount = global.totalPhotosCount
  /\ \A p \in Batches :
       (proc[p].result \in {"null", "threw"} /\ proc[p].photo \in Range(proc[p].items0))
         => proc[p].photo \in Range(missingPhotos)

\* C34 (single-item runs end in a terminal record): the step in which a call
\* of downloadSinglePhoto returns leaves the record of its photo either with
\* complete = TRUE and a driveLink, or with an error.
C34_SingleEndsTerminal ==
  [][\A p \in Singles :
       (proc[p].pc # "done" /\ proc'[p].pc = "done")
         => /\ proc[p].photo \in DOMAIN individual'
            /\ LET r == individual'[proc[p].photo]
               IN \/ Has(r, "error")
                  \/ /\ Has(r, "complete") /\ r.complete = TRUE
                     /\ Has(r, "driveLink")]_vars

\* C35 (expiry never removes a live record): the step in which an expiry
\* timer fires deletes the record of a photo only if no call of
\* downloadSinglePhoto is inside processPhoto for that photo.
C35_ExpirySparesLiveRecord ==
  [][\A id \in PhotoIds :
       (/\ id \in DOMAIN individual /\ id \notin DOMAIN individual'
        /\ timers' # timers)
         => ~\E p \in Singles : InFlight(proc[p]) /\ proc[p].photo = id]_vars

\* C36 (a cancel request is never lost): a batch that had an item in flight
\* when a cancel message arrived calls processPhoto for no further item,
\* whatever messages arrive afterwards, and the step in which it returns
\* leaves the global record complete and not in progress.
C36_CancelNeverLost ==
  [][\A p \in Batches :
       (proc[p].cancelAt > 0 /\ Running(proc[p]))
         => /\ proc'[p].invoked = proc[p].invoked
            /\ proc'[p].pc = "done" => (global'.complete /\ ~global'.inProgress)]_vars

\* C37 (one download per transfer): one call of processPhoto downloads the
\* photo at most once, however often the embedding is tried, and a call that
\* has come to its upload has downloaded it exactly once.
C37_OneDownloadPerTransfer ==
  \A p \in Procs :
    /\ proc[p].downloads <= 1
    /\ proc[p].pc \in {"find", "upload"} => proc[p].downloads = 1

\* C38 (batch termination): every call of downloadAllPhotos that is under
\* way comes to its end, and it ends with the global record complete and not
\* in progress.
C38_BatchTerminates ==
  \A p \in Batches :
    Running(proc[p]) ~> (BatchDone(p) /\ global.complete /\ ~global.inProgress)

\* a batch has ended after a cancel request and a transfer with a backoff
\* wait, the global record being terminal
C38_Witness ==
  \E p \in Batches :
    /\ BatchDone(p)
    /\ proc[p].cancelReq
    /\ Len(proc[p].waits) > 0
    /\ Len(proc[p].items0) = NPhotos
    /\ global.complete /\ ~global.inProgress

\* C39 (a cancelled batch does not report success): the step in which a
\* batch loop finds the cancelled flag set and stops does not leave the
\* global record with the message `All photos downloaded successfully to
\* Google Drive!`.
C39_CancelledNotSuccess ==
  [][\A p \in Batches :
       (/\ proc[p].pc = "loop" /\ proc[p].i < Len(photos)
        /\ global.cancelled
        /\ proc'[p].pc = "done")
         => global'.message.kind # "allDone"]_vars

====
